---------------------------- MODULE Spec2Model ----------------------------
(***************************************************************************)
(* Model of server.py: the OPS client (token exchange, resource fetch,     *)
(* response decoding, XML normalisation) and the tool operations that      *)
(* share the process-wide client ops_client.                               *)
(*                                                                         *)
(* Each tool invocation is an asyncio task.  A task runs atomically from   *)
(* one await that suspends to the next, so every action below is the code  *)
(* between two such awaits.                                                *)
(*                                                                         *)
(* Python values are tagged records: PyNone, PyStr(s), PyDict(f),          *)
(* PyList(q), PyBool(b).  A Python string is a sequence of pieces, so      *)
(* that concatenation, strip() and startswith() are computed.              *)
(***************************************************************************)
EXTENDS Integers, Sequences, FiniteSets, TLC

(***************************************************************************)
(* Bounds of the model.                                                    *)
(***************************************************************************)
MaxTasks == 2
MaxClients == 4
MaxNodes == 3
MaxSiblings == 3
MaxDecodeNodes == 2

(***************************************************************************)
(* Python values.                                                          *)
(***************************************************************************)
PyNone == [none |-> TRUE]
PyStr(s) == [str |-> s]
PyDict(f) == [dict |-> f]
PyList(q) == [list |-> q]
PyBool(b) == [bool |-> b]

IsStr(v) == DOMAIN v = {"str"}
IsDict(v) == DOMAIN v = {"dict"}
IsList(v) == DOMAIN v = {"list"}

EmptyDict == [k \in {} |-> PyNone]
DictSet(d, k, v) == [x \in (DOMAIN d) \cup {k} |-> IF x = k THEN v ELSE d[x]]
DictUpdate(d, e) == [x \in (DOMAIN d) \cup (DOMAIN e) |-> IF x \in DOMAIN e THEN e[x] ELSE d[x]]

\* bool(v) of a Python value
Truthy(v) ==
    IF v = PyNone THEN FALSE
    ELSE IF IsStr(v) THEN v.str # <<>>
    ELSE IF IsDict(v) THEN DOMAIN v.dict # {}
    ELSE IF IsList(v) THEN v.list # <<>>
    ELSE v.bool

(***************************************************************************)
(* Exceptions.  cls is the class, msg is str(e).                           *)
(***************************************************************************)
Exc(cls, msg) == [cls |-> cls, msg |-> msg]

\* subclasses of httpx.HTTPError that the transport raises
HTTPErrorClasses == {"HTTPStatusError", "ConnectError", "ReadTimeout"}
\* subclasses of Exception that are not httpx.HTTPError
OtherExceptionClasses == {"OPSError", "JSONDecodeError", "KeyError", "RuntimeError"}

IsHTTPError(e) == e.cls \in HTTPErrorClasses
IsException(e) == e.cls \in HTTPErrorClasses \cup OtherExceptionClasses

HTTPFailures ==
    { Exc("HTTPStatusError", <<"Client error '401 Unauthorized'">>),
      Exc("ConnectError", <<"All connection attempts failed">>),
      Exc("ReadTimeout", <<"timed out">>) }

ClosedClientError == Exc("RuntimeError", <<"Cannot send a request, as the client has been closed.">>)


(***************************************************************************)
(* XML elements, as xml.etree.ElementTree builds them: tag, attrib (a      *)
(* dict of str), text (None or a str, here a sequence of characters) and   *)
(* the children in document order.                                         *)
(***************************************************************************)
Whitespace == {" ", "\n", "\t"}

Tags == {"a", "b"}
Attribs == { EmptyDict, [k \in {"id"} |-> PyStr(<<"1">>)] }
Texts == { PyNone, PyStr(<<" ", " ">>), PyStr(<<" ", "H", "i", "\n">>) }

Element(tag, attrib, text, children) ==
    [tag |-> tag, attrib |-> attrib, text |-> text, children |-> children]

\* what an element carries itself: tag, attrib, text
Labels == Tags \X Attribs \X Texts

(***************************************************************************)
(* A document of n elements is given by the depth of each element in       *)
(* document order (the root first, at depth 0; an element is at most one   *)
(* level below the element before it) and by the label of each element.    *)
(***************************************************************************)
IsDocumentOrder(depth, n) ==
    /\ depth[1] = 0
    /\ \A i \in 2..n : depth[i] >= 1 /\ depth[i] <= depth[i - 1] + 1

\* the last element of the subtree of element i
RECURSIVE SubtreeEnd(_, _, _, _)
SubtreeEnd(depth, n, i, j) ==
    IF j < n /\ depth[j + 1] > depth[i] THEN SubtreeEnd(depth, n, i, j + 1) ELSE j

\* the children of element i among the elements from..to, in document order
RECURSIVE ChildrenOf(_, _, _, _)
ChildrenOf(depth, i, from, to) ==
    IF from > to THEN <<>>
    ELSE IF depth[from] = depth[i] + 1
         THEN <<from>> \o ChildrenOf(depth, i, from + 1, to)
         ELSE ChildrenOf(depth, i, from + 1, to)

RECURSIVE BuildElement(_, _, _, _), BuildChildren(_, _, _, _)
BuildElement(depth, label, n, i) ==
    Element(label[i][1], label[i][2], label[i][3],
            BuildChildren(depth, label, n,
                          ChildrenOf(depth, i, i + 1, SubtreeEnd(depth, n, i, i))))
BuildChildren(depth, label, n, idx) ==
    IF idx = <<>> THEN <<>>
    ELSE <<BuildElement(depth, label, n, Head(idx))>>
         \o BuildChildren(depth, label, n, Tail(idx))

(***************************************************************************)
(* str.strip()                                                             *)
(***************************************************************************)
RECURSIVE lstrip(_), rstrip(_)
lstrip(s) == IF s # <<>> /\ Head(s) \in Whitespace THEN lstrip(Tail(s)) ELSE s
rstrip(s) == IF s # <<>> /\ s[Len(s)] \in Whitespace
             THEN rstrip(SubSeq(s, 1, Len(s) - 1)) ELSE s
strip(s) == rstrip(lstrip(s))

(***************************************************************************)
(* OPSClient._xml_to_dict                                                  *)
(***************************************************************************)
\* a test of the text that forgets strip()
has_text_without_strip(element) == Truthy(element.text)

\* element.text and element.text.strip()
has_text(element) ==
    /\ Truthy(element.text)
    /\ strip(element.text.str) # <<>>

\* a loop body without the isinstance test: the list is wrapped again
merge_child_wraps_again(children, tag, child_data) ==
    IF tag \in DOMAIN children
    THEN DictSet(children, tag, PyList(<<children[tag], child_data>>))
    ELSE DictSet(children, tag, child_data)

\* the body of the loop over the children: children[child.tag] gets child_data
merge_child(children, tag, child_data) ==
    IF tag \in DOMAIN children
    THEN LET prev == children[tag]
             lst == IF ~IsList(prev) THEN <<prev>> ELSE prev.list
         IN  DictSet(children, tag, PyList(Append(lst, child_data)))
    ELSE DictSet(children, tag, child_data)

\* the early return of the text of an element without children
text_short_circuit(element) == Len(element.children) = 0

RECURSIVE xml_to_dict(_), collect_children(_, _, _)
collect_children(kids, i, children) ==
    IF i > Len(kids) THEN children
    ELSE collect_children(kids, i + 1,
                          merge_child(children, kids[i].tag, xml_to_dict(kids[i])))

xml_to_dict(element) ==
    LET result0 == IF DOMAIN element.attrib # {}
                   THEN DictSet(EmptyDict, "@attributes", PyDict(element.attrib))
                   ELSE EmptyDict
    IN  IF has_text(element) /\ text_short_circuit(element)
        THEN PyStr(strip(element.text.str))
        ELSE LET result1 == IF has_text(element)
                            THEN DictSet(result0, "#text", PyStr(strip(element.text.str)))
                            ELSE result0
                 children == collect_children(element.children, 1, EmptyDict)
                 result2 == IF DOMAIN children # {}
                            THEN DictUpdate(result1, children)
                            ELSE result1
             IN  IF DOMAIN result2 # {} THEN PyDict(result2) ELSE PyNone

(***************************************************************************)
(* A response body: the text of a document.  ET.fromstring either builds   *)
(* the root element of a well-formed document or raises ParseError.        *)
(***************************************************************************)
WellFormed(root) == [wf |-> TRUE, root |-> root]
Malformed(raw) == [wf |-> FALSE, raw |-> raw]
MalformedBodies == { Malformed(<<"<a><b></a>">>), Malformed(<<>>) }

ParseError == Exc("ParseError", <<"mismatched tag">>)
fromstring(xml_content) ==
    IF xml_content.wf THEN [root |-> xml_content.root] ELSE [raised |-> ParseError]

\* the isinstance chain that makes the result a dictionary
wrap_result(result) ==
    IF IsStr(result) THEN PyDict(DictSet(EmptyDict, "text_content", result))
    ELSE IF result = PyNone THEN PyDict(DictSet(EmptyDict, "empty", PyBool(TRUE)))
    ELSE result

\* OPSClient._parse_xml_response
parse_xml_response(xml_content) ==
    LET parsed == fromstring(xml_content)
    IN  IF "raised" \in DOMAIN parsed
        THEN PyDict(DictSet(EmptyDict, "raw_xml", PyStr(xml_content)))
        ELSE wrap_result(xml_to_dict(parsed.root))

(***************************************************************************)
(* The content-type header of a response: a str, split in pieces.          *)
(***************************************************************************)
XmlMediaType == <<"application", "/", "xml">>
ContentTypes ==
    { [present |-> FALSE],
      [present |-> TRUE, value |-> <<"application", "/", "xml">>],
      [present |-> TRUE, value |-> <<"application", "/", "xml", ";", "charset=UTF-8">>],
      [present |-> TRUE, value |-> <<"application", "/", "json">>],
      [present |-> TRUE, value |-> <<"text", "/", "xml">>],
      [present |-> TRUE, value |-> <<"text", "/", "plain">>] }

\* a comparison of the whole string instead of its beginning
startswith_equal(s, prefix) == s = prefix

startswith(s, prefix) ==
    /\ Len(s) >= Len(prefix)
    /\ SubSeq(s, 1, Len(prefix)) = prefix

\* response.headers.get("content-type", "")
header_get(content_type) == IF content_type.present THEN content_type.value ELSE <<>>

\* the decoding of a successful response in OPSClient.make_request
decode_response(content_type, body) ==
    IF startswith(header_get(content_type), XmlMediaType)
    THEN parse_xml_response(body)
    ELSE PyDict(DictSet(EmptyDict, "raw_content", PyStr(body)))

(***************************************************************************)
(* State.                                                                  *)
(***************************************************************************)
VARIABLES
    os_environ,     \* whether OPS_ID and OPS_SECRET are both set and non-empty
    ops_client,     \* the global ops_client: NoClient (None) or a client
    clients,        \* every OPSClient constructed so far, in order of construction
    pc,             \* per task: where the tool invocation is suspended
    tool,           \* per task: the tool that was invoked
    self,           \* per task: the client the task called get_auth_token or
                    \*           make_request on
    request,        \* per task: the HTTP request in flight
    token,          \* per task: the local variable token of the authentication tools
    returned,       \* the invocation that has just returned, until the dispatcher
                    \* has sent its result: task, tool, self, the exception raised
                    \* in the tool's try block, and the result
    authenticated,  \* history: some authentication call has succeeded
    last_auth,      \* history: token of the last successful authentication call,
                    \*          PyNone again once a later authentication call starts
    overlapped,     \* history, per task: another authentication call succeeded
                    \*          while this task's authentication call was in flight
    xml_content,    \* decoder: the response body being decoded
    content_type,   \* decoder: the content-type header of the response
    xml_value,      \* decoder: the value _xml_to_dict produced for the root
    decoded         \* decoder: the dictionary the decoding returned

server_vars == <<os_environ, ops_client, clients, pc, tool, self, request, token,
                 returned, authenticated, last_auth, overlapped>>
decoder_vars == <<xml_content, content_type, xml_value, decoded>>
vars == <<server_vars, decoder_vars>>

Tasks == 1..MaxTasks

NoClient == 0
NoRequest == [none |-> TRUE]
NoReturn == [none |-> TRUE]
NoFailure == [none |-> TRUE]
NotDecoded == [none |-> TRUE]

Returned(p, t, c, e, r) == [task |-> p, tool |-> t, self |-> c, failure |-> e, result |-> r]

AuthTools == {"authenticate_ops", "authenticate_ops_env"}
\* search_patents stands for the eleven fetch tools (search_patents,
\* get_patent_biblio, get_patent_abstract, get_patent_claims,
\* get_patent_description, get_patent_equivalents, get_patent_family,
\* get_legal_data, search_register_data, get_cpc_classification,
\* convert_patent_number): their bodies are the same statements around one
\* call of ops_client.make_request and differ in the endpoint, in the echoed
\* arguments and in the key of the decoded response.
FetchTool == "search_patents"
DataKey == "results"

\* the access tokens the token endpoint answers with
Tokens == { <<>>, <<"tokA">> }

(***************************************************************************)
(* OPSClient.__init__                                                      *)
(***************************************************************************)
DefaultHeaders ==
    [k \in {"User-Agent", "Accept"} |->
        IF k = "User-Agent" THEN PyStr(<<"ops-mcp-server/1.0">>)
        ELSE PyStr(<<"application/xml">>)]

\* if access_token: (the token is None or a str)
token_is_set(access_token) == Truthy(access_token)

OPSClient(access_token) ==
    [ access_token |-> access_token,
      headers |-> IF token_is_set(access_token)
                  THEN DictSet(DefaultHeaders, "Authorization",
                               PyStr(<<"Bearer ">> \o access_token.str))
                  ELSE DefaultHeaders,
      closed |-> FALSE ]

\* OPSClient.__aexit__: await self.client.aclose()
aexit(cs, c) == [cs EXCEPT ![c].closed = TRUE]

(***************************************************************************)
(* Exception handling of the client methods and of the tools.              *)
(***************************************************************************)
\* a handler that raises OPSError without the cause in its message
get_auth_token_raises_without_cause(e) ==
    IF IsHTTPError(e)
    THEN [cls |-> "OPSError", msg |-> <<"Erreur d'authentification">>, context |-> e]
    ELSE e

\* except httpx.HTTPError as e: raise OPSError(...) in get_auth_token
get_auth_token_raises(e) ==
    IF IsHTTPError(e)
    THEN [cls |-> "OPSError", msg |-> <<"Erreur d'authentification: ">> \o e.msg,
          context |-> e]
    ELSE e

\* except httpx.HTTPError as e: raise OPSError(...) in make_request
make_request_raises(e) ==
    IF IsHTTPError(e)
    THEN [cls |-> "OPSError", msg |-> <<"Erreur de requete vers url: ">> \o e.msg,
          context |-> e]
    ELSE e

\* a handler that catches the client's own error class only
tool_catches_OPSError_only(e) == e.cls = "OPSError"

\* except Exception as e: of every tool
tool_catches(e) == IsException(e)

\* what an authentication tool returns when its try block raises e
auth_tool_outcome(e) ==
    IF tool_catches(e)
    THEN [ret |-> PyStr(<<"Erreur d'authentification: ">> \o e.msg)]
    ELSE [raised |-> e]

\* what a fetch tool returns when its try block raises e
fetch_tool_outcome(e) ==
    IF tool_catches(e)
    THEN [ret |-> PyDict(DictSet(EmptyDict, "error", PyStr(e.msg)))]
    ELSE [raised |-> e]

NotAuthenticatedEnvelope ==
    PyDict(DictSet(EmptyDict, "error",
                   PyStr(<<"Veuillez d'abord vous authentifier avec authenticate_ops()">>)))

\* if not ops_client:
no_client(c) == c = NoClient

\* what an authentication tool returns after it has installed the new client
success_message(t) ==
    IF t = "authenticate_ops_env"
    THEN PyStr(<<"Authentification reussie ! Token obtenu et configure avec les cles du .env.">>)
    ELSE PyStr(<<"Authentification reussie ! Token obtenu et configure.">>)

\* the ways the token exchange can fail inside get_auth_token
TokenFailures ==
    HTTPFailures \cup
    { Exc("JSONDecodeError", <<"Expecting value: line 1 column 1 (char 0)">>),
      Exc("KeyError", <<"'access_token'">>) }

\* documents a fetch is answered with
SampleBodies ==
    { WellFormed(Element("r", EmptyDict, PyNone,
                         << Element("c", EmptyDict, PyStr(<<"1">>), <<>>),
                            Element("c", EmptyDict, PyStr(<<"2">>), <<>>) >>)),
      WellFormed(Element("e", EmptyDict, PyNone, <<>>)),
      Malformed(<<"<a><b></a>">>) }

(***************************************************************************)
(* Initial state: the module has been imported, no tool has been called.   *)
(***************************************************************************)
ServerInit ==
    /\ os_environ \in BOOLEAN
    /\ ops_client = NoClient
    /\ clients = <<>>
    /\ pc = [p \in Tasks |-> "idle"]
    /\ tool = [p \in Tasks |-> "none"]
    /\ self = [p \in Tasks |-> NoClient]
    /\ request = [p \in Tasks |-> NoRequest]
    /\ token = [p \in Tasks |-> PyNone]
    /\ returned = NoReturn
    /\ authenticated = FALSE
    /\ last_auth = PyNone
    /\ overlapped = [p \in Tasks |-> FALSE]

DecoderIdle ==
    /\ xml_content = Malformed(<<>>)
    /\ content_type = [present |-> FALSE]
    /\ xml_value = NotDecoded
    /\ decoded = NotDecoded

Init == ServerInit /\ DecoderIdle

\* the task is idle again, its locals are gone
Finish(p) ==
    /\ pc' = [pc EXCEPT ![p] = "idle"]
    /\ tool' = [tool EXCEPT ![p] = "none"]
    /\ self' = [self EXCEPT ![p] = NoClient]
    /\ request' = [request EXCEPT ![p] = NoRequest]
    /\ token' = [token EXCEPT ![p] = PyNone]

(***************************************************************************)
(* The authentication tools.                                               *)
(***************************************************************************)
AuthInFlight == { p \in Tasks : pc[p] \in {"get_auth_token", "aexit"} }

\* authenticate_ops_env without credentials in the environment
authenticate_ops_env_missing(p) ==
    /\ returned = NoReturn
    /\ pc[p] = "idle"
    /\ ~os_environ
    /\ returned' = Returned(p, "authenticate_ops_env", NoClient, NoFailure,
          [ret |-> PyStr(<<"Erreur: Variables d'environnement OPS_ID et OPS_SECRET non trouvees dans le fichier .env">>)])
    /\ UNCHANGED <<os_environ, ops_client, clients, pc, tool, self, request, token,
                   authenticated, last_auth, overlapped, decoder_vars>>

\* authenticate made to wait until no other call of a tool is suspended on a
\* client (what a lock around the replacement of ops_client would do)
authenticate_serialized(p, t) ==
    /\ returned = NoReturn
    /\ pc[p] = "idle"
    /\ \A q \in Tasks : pc[q] = "idle"
    /\ t \in AuthTools
    /\ t = "authenticate_ops_env" => os_environ
    /\ Len(clients) + Cardinality(AuthInFlight) + 2 <= MaxClients
    /\ clients' = Append(clients, OPSClient(PyNone))
    /\ ops_client' = Len(clients) + 1
    /\ self' = [self EXCEPT ![p] = Len(clients) + 1]
    /\ request' = [request EXCEPT ![p] =
          [method |-> "POST", url |-> "https://ops.epo.org/3.2/auth/accesstoken",
           headers |-> DictSet(EmptyDict, "Content-Type",
                               PyStr(<<"application/x-www-form-urlencoded">>))]]
    /\ tool' = [tool EXCEPT ![p] = t]
    /\ pc' = [pc EXCEPT ![p] = "get_auth_token"]
    /\ last_auth' = PyNone
    /\ overlapped' = [overlapped EXCEPT ![p] = FALSE]
    /\ UNCHANGED <<os_environ, token, returned, authenticated, decoder_vars>>

\* ops_client = OPSClient(); token = await ops_client.get_auth_token(...)
\* up to the suspension in self.client.post
authenticate(p, t) ==
    /\ returned = NoReturn
    /\ pc[p] = "idle"
    /\ t \in AuthTools
    /\ t = "authenticate_ops_env" => os_environ
    /\ Len(clients) + Cardinality(AuthInFlight) + 2 <= MaxClients
    /\ clients' = Append(clients, OPSClient(PyNone))
    /\ ops_client' = Len(clients) + 1
    /\ self' = [self EXCEPT ![p] = Len(clients) + 1]
    /\ request' = [request EXCEPT ![p] =
          [method |-> "POST", url |-> "https://ops.epo.org/3.2/auth/accesstoken",
           headers |-> DictSet(EmptyDict, "Content-Type",
                               PyStr(<<"application/x-www-form-urlencoded">>))]]
    /\ tool' = [tool EXCEPT ![p] = t]
    /\ pc' = [pc EXCEPT ![p] = "get_auth_token"]
    /\ last_auth' = PyNone
    /\ overlapped' = [overlapped EXCEPT ![p] = FALSE]
    /\ UNCHANGED <<os_environ, token, returned, authenticated, decoder_vars>>

\* the token endpoint answers 2xx with a JSON body whose access_token is t:
\* get_auth_token returns it and the tool calls ops_client.__aexit__, up to the
\* suspension in self.client.aclose()
get_auth_token_returns(p, t) ==
    /\ returned = NoReturn
    /\ pc[p] = "get_auth_token"
    /\ token' = [token EXCEPT ![p] = PyStr(t)]
    /\ clients' = aexit(clients, ops_client)
    /\ request' = [request EXCEPT ![p] = NoRequest]
    /\ pc' = [pc EXCEPT ![p] = "aexit"]
    /\ UNCHANGED <<os_environ, ops_client, tool, self, returned,
                   authenticated, last_auth, overlapped, decoder_vars>>

\* the token exchange raises e inside get_auth_token; the tool's except clause
\* turns what get_auth_token raises into the returned string
get_auth_token_fails(p, e) ==
    /\ returned = NoReturn
    /\ pc[p] = "get_auth_token"
    /\ e \in TokenFailures \cup (IF clients[self[p]].closed THEN {ClosedClientError} ELSE {})
    /\ returned' = Returned(p, tool[p], self[p], get_auth_token_raises(e),
                            auth_tool_outcome(get_auth_token_raises(e)))
    /\ Finish(p)
    /\ UNCHANGED <<os_environ, ops_client, clients,
                   authenticated, last_auth, overlapped, decoder_vars>>

\* aclose() is over: ops_client = OPSClient(access_token=token); return "..."
aexit_returns(p) ==
    /\ returned = NoReturn
    /\ pc[p] = "aexit"
    /\ clients' = Append(clients, OPSClient(token[p]))
    /\ ops_client' = Len(clients) + 1
    /\ returned' = Returned(p, tool[p], self[p], NoFailure, [ret |-> success_message(tool[p])])
    /\ Finish(p)
    /\ authenticated' = TRUE
    /\ last_auth' = token[p]
    /\ overlapped' = [q \in Tasks |-> IF q # p /\ q \in AuthInFlight
                                      THEN TRUE ELSE overlapped[q]]
    /\ UNCHANGED <<os_environ, decoder_vars>>

(***************************************************************************)
(* The fetch tools.                                                        *)
(***************************************************************************)
\* if not ops_client: return {"error": ...}
fetch_not_authenticated(p) ==
    /\ returned = NoReturn
    /\ pc[p] = "idle"
    /\ no_client(ops_client)
    /\ returned' = Returned(p, FetchTool, NoClient, NoFailure,
                            [ret |-> NotAuthenticatedEnvelope])
    /\ UNCHANGED <<os_environ, ops_client, clients, pc, tool, self, request, token,
                   authenticated, last_auth, overlapped, decoder_vars>>

\* result = await ops_client.make_request(endpoint, params), up to the
\* suspension in self.client.get; a closed httpx client refuses to send
fetch_call(p) ==
    /\ returned = NoReturn
    /\ pc[p] = "idle"
    /\ ~no_client(ops_client)
    /\ IF clients[ops_client].closed
       THEN /\ returned' = Returned(p, FetchTool, ops_client,
                                    make_request_raises(ClosedClientError),
                                    fetch_tool_outcome(make_request_raises(ClosedClientError)))
            /\ UNCHANGED <<pc, tool, self, request>>
       ELSE /\ request' = [request EXCEPT ![p] =
                  [method |-> "GET", url |-> "https://ops.epo.org/3.2/rest-services",
                   headers |-> clients[ops_client].headers]]
            /\ tool' = [tool EXCEPT ![p] = FetchTool]
            /\ self' = [self EXCEPT ![p] = ops_client]
            /\ pc' = [pc EXCEPT ![p] = "make_request"]
            /\ UNCHANGED returned
    /\ UNCHANGED <<os_environ, ops_client, clients, token,
                   authenticated, last_auth, overlapped, decoder_vars>>

\* the resource endpoint answers 2xx: the response is decoded and returned
make_request_returns(p, ct, body) ==
    /\ returned = NoReturn
    /\ pc[p] = "make_request"
    /\ ct \in ContentTypes
    /\ body \in SampleBodies
    /\ returned' = Returned(p, tool[p], self[p], NoFailure,
          [ret |-> PyDict(DictSet(EmptyDict, DataKey, decode_response(ct, body)))])
    /\ Finish(p)
    /\ UNCHANGED <<os_environ, ops_client, clients,
                   authenticated, last_auth, overlapped, decoder_vars>>

\* the fetch raises e inside make_request
make_request_fails(p, e) ==
    /\ returned = NoReturn
    /\ pc[p] = "make_request"
    /\ e \in HTTPFailures \cup (IF clients[self[p]].closed THEN {ClosedClientError} ELSE {})
    /\ returned' = Returned(p, tool[p], self[p], make_request_raises(e),
                            fetch_tool_outcome(make_request_raises(e)))
    /\ Finish(p)
    /\ UNCHANGED <<os_environ, ops_client, clients,
                   authenticated, last_auth, overlapped, decoder_vars>>

\* the dispatcher sends the result of the invocation that returned
send_result ==
    /\ returned # NoReturn
    /\ returned' = NoReturn
    /\ UNCHANGED <<os_environ, ops_client, clients, pc, tool, self, request, token,
                   authenticated, last_auth, overlapped, decoder_vars>>

Next ==
    \/ \E p \in Tasks :
        \/ authenticate_ops_env_missing(p)
        \/ \E t \in AuthTools : authenticate(p, t)
        \/ \E t \in Tokens : get_auth_token_returns(p, t)
        \/ \E e \in TokenFailures \cup {ClosedClientError} : get_auth_token_fails(p, e)
        \/ aexit_returns(p)
        \/ fetch_not_authenticated(p)
        \/ fetch_call(p)
        \/ \E ct \in ContentTypes, body \in SampleBodies : make_request_returns(p, ct, body)
        \/ \E e \in HTTPFailures \cup {ClosedClientError} : make_request_fails(p, e)
    \/ send_result

Spec == Init /\ [][Next]_vars

(***************************************************************************)
(* The decoder on its own: a response (content type, body) is decoded by   *)
(* the code of make_request that follows raise_for_status().               *)
(***************************************************************************)
decode(ct, body) ==
    /\ decoded = NotDecoded
    /\ xml_value' = IF startswith(header_get(ct), XmlMediaType) /\ body.wf
                    THEN [value |-> xml_to_dict(body.root)]
                    ELSE NotDecoded
    /\ decoded' = decode_response(ct, body)
    /\ UNCHANGED <<xml_content, content_type, server_vars>>

ServerIdle == ServerInit /\ os_environ = TRUE

\* xml_content is a document of at most n elements, or of a root with at
\* most w children that have no children, or a malformed body
IsBody(n, w) ==
    \/ xml_content \in MalformedBodies
    \/ \E k \in 1..(IF n > w + 1 THEN n ELSE w + 1) :
         \E depth \in [1..k -> 0..(k - 1)] :
            /\ IsDocumentOrder(depth, k)
            /\ IF k <= n THEN TRUE ELSE \A i \in 2..k : depth[i] = 1
            /\ \E label \in [1..k -> Labels] :
                  xml_content = WellFormed(BuildElement(depth, label, k, 1))

\* every document of the bound, served as application/xml
InitXml ==
    /\ ServerIdle
    /\ IsBody(MaxNodes, MaxSiblings)
    /\ content_type = [present |-> TRUE, value |-> XmlMediaType]
    /\ xml_value = NotDecoded
    /\ decoded = NotDecoded

NextXml == decode(content_type, xml_content)

SpecXml == InitXml /\ [][NextXml]_vars

\* every content type, with the smaller documents
InitDecode ==
    /\ ServerIdle
    /\ IsBody(MaxDecodeNodes, 0)
    /\ content_type \in ContentTypes
    /\ xml_value = NotDecoded
    /\ decoded = NotDecoded

NextDecode == decode(content_type, xml_content)

SpecDecode == InitDecode /\ [][NextDecode]_vars

(***************************************************************************)
(* Properties.                                                             *)
(***************************************************************************)
JustReturned == returned # NoReturn
AuthJustReturned == JustReturned /\ returned.tool \in AuthTools

Unreleased == { c \in 1..Len(clients) : ~clients[c].closed }

HoldsNoCredential(c) ==
    /\ clients[c].access_token = PyNone
    /\ "Authorization" \notin DOMAIN clients[c].headers

\* C1: a fetch tool invoked while no authentication call has succeeded yet
\* returns the not-authenticated error envelope and sends no request.
C1_UnauthenticatedFetchShortCircuits ==
    [][\A p \in Tasks :
          (~authenticated /\ (fetch_not_authenticated(p) \/ fetch_call(p)))
          => /\ request' = request
             /\ returned' # NoReturn
             /\ returned'.result = [ret |-> NotAuthenticatedEnvelope]]_vars

\* C2: a tool invocation never raises: it returns a value; an authentication
\* tool returns a string, and a fetch tool whose try block raised returns the
\* error envelope {"error": <string>}.
C2_NoToolRaises ==
    JustReturned =>
        /\ DOMAIN returned.result = {"ret"}
        /\ returned.tool \in AuthTools => IsStr(returned.result.ret)
        /\ returned.tool = FetchTool =>
              /\ IsDict(returned.result.ret)
              /\ returned.failure # NoFailure =>
                    /\ DOMAIN returned.result.ret.dict = {"error"}
                    /\ IsStr(returned.result.ret.dict["error"])

\* C2 witness: both kinds of tool have returned after an exception that is not
\* the client's own error class: here the authentication tool on a token
\* response that is not JSON.
C2_Witness ==
    /\ AuthJustReturned
    /\ returned.failure # NoFailure
    /\ returned.failure.cls = "JSONDecodeError"

\* the exception of the invocation that returned stems from an HTTP error of
\* the token exchange
TokenExchangeFailedOnHTTP ==
    /\ AuthJustReturned
    /\ returned.failure # NoFailure
    /\ returned.failure.cls \in HTTPErrorClasses \cup {"OPSError"}

RaisedOPSErrorWithCause ==
    /\ returned.failure.cls = "OPSError"
    /\ returned.failure.context \in HTTPFailures
    /\ returned.failure.msg
          = <<"Erreur d'authentification: ">> \o returned.failure.context.msg

C4_ExchangeContextReleased ==
    (AuthJustReturned /\ returned.self # NoClient) => clients[returned.self].closed

\* C5: the client that ops_client held is closed before ops_client is
\* replaced; with no authentication call in flight at most one client is
\* unreleased; access_token and headers of a client never change.
C5_ReplacedContextReleased ==
    [][/\ (ops_client' # ops_client /\ ops_client # NoClient)
             => clients[ops_client].closed
       /\ AuthInFlight' = {} => Cardinality(Unreleased') <= 1
       /\ \A c \in 1..Len(clients) :
             /\ clients'[c].access_token = clients[c].access_token
             /\ clients'[c].headers = clients[c].headers]_vars

\* C6: between the success of an authentication call with token t and the
\* start of the next authentication call, every request a fetch tool sends
\* carries Authorization: Bearer t.
C6_RequestsCarryBearerToken ==
    [][\A p \in Tasks :
          (last_auth # PyNone /\ fetch_call(p) /\ request'[p] # NoRequest)
          => /\ "Authorization" \in DOMAIN request'[p].headers
             /\ request'[p].headers["Authorization"]
                   = PyStr(<<"Bearer ">> \o last_auth.str)]_vars

(***************************************************************************)
(* Properties of the normalizer and of the decoder.                        *)
(***************************************************************************)
Normalized == xml_value # NotDecoded

AllWhitespace(s) == \A i \in 1..Len(s) : s[i] \in Whitespace
NonBlankText(e) == e.text # PyNone /\ ~AllWhitespace(e.text.str)

\* the positions of the children of e with tag t
Positions(e, t) == { i \in 1..Len(e.children) : e.children[i].tag = t }
\* the position of the j-th child with tag t
Nth(e, t, j) ==
    CHOOSE i \in Positions(e, t) : Cardinality({ m \in Positions(e, t) : m <= i }) = j

\* C7: the value of an element has all its attributes under "@attributes",
\* its non-blank text (as the string itself or under "#text") and a key for
\* every child.
C7_NoInformationLost ==
    Normalized =>
        LET e == xml_content.root
            v == xml_value.value
        IN  /\ DOMAIN e.attrib # {} =>
                 /\ IsDict(v)
                 /\ "@attributes" \in DOMAIN v.dict
                 /\ v.dict["@attributes"] = PyDict(e.attrib)
            /\ NonBlankText(e) =>
                 \/ v = PyStr(strip(e.text.str))
                 \/ /\ IsDict(v)
                    /\ "#text" \in DOMAIN v.dict
                    /\ v.dict["#text"] = PyStr(strip(e.text.str))
            /\ \A i \in 1..Len(e.children) :
                 IsDict(v) /\ e.children[i].tag \in DOMAIN v.dict

\* C8: for every tag t, an element with exactly one child of tag t maps t to
\* the value of that child, and an element with k >= 2 children of tag t maps
\* t to the list of the k values of these children in document order.
C8_RepeatedTagsCollapseInOrder ==
    Normalized =>
        LET e == xml_content.root
            v == xml_value.value
        IN  \A t \in Tags :
              LET k == Cardinality(Positions(e, t))
              IN  /\ k >= 1 => IsDict(v) /\ t \in DOMAIN v.dict
                  /\ k = 1 => v.dict[t] = xml_to_dict(e.children[Nth(e, t, 1)])
                  /\ k >= 2 =>
                       v.dict[t] =
                         PyList([j \in 1..k |-> xml_to_dict(e.children[Nth(e, t, j)])])

\* C8 witness: two children of one tag with a child of another tag between
\* them, the two having different values.
C8_Witness ==
    /\ Normalized
    /\ Len(xml_content.root.children) = 3
    /\ xml_content.root.children[1].tag = xml_content.root.children[3].tag
    /\ xml_content.root.children[1].tag # xml_content.root.children[2].tag
    /\ xml_to_dict(xml_content.root.children[1]) # xml_to_dict(xml_content.root.children[3])

IsEmptyElement(e) ==
    /\ DOMAIN e.attrib = {}
    /\ Len(e.children) = 0
    /\ e.text = PyNone \/ AllWhitespace(e.text.str)

EmptyResult == PyDict(DictSet(EmptyDict, "empty", PyBool(TRUE)))

\* C9: an element without attributes, children and non-blank text has the
\* value None: as the root the document decodes to {"empty": True}, as a
\* child its tag is a key of the parent with None (or None at its place in
\* the list of the tag), and whitespace-only text gives the value that no
\* text gives.
C9_EmptyElementIsMarker ==
    Normalized =>
        LET e == xml_content.root
            v == xml_value.value
        IN  /\ IsEmptyElement(e) => v = PyNone /\ decoded = EmptyResult
            /\ \A i \in 1..Len(e.children) :
                 IsEmptyElement(e.children[i]) =>
                    LET t == e.children[i].tag
                        rank == Cardinality({ m \in Positions(e, t) : m <= i })
                    IN  /\ IsDict(v)
                        /\ t \in DOMAIN v.dict
                        /\ IF Cardinality(Positions(e, t)) = 1
                           THEN v.dict[t] = PyNone
                           ELSE /\ IsList(v.dict[t])
                                /\ Len(v.dict[t].list) = Cardinality(Positions(e, t))
                                /\ v.dict[t].list[rank] = PyNone
            /\ (e.text # PyNone /\ AllWhitespace(e.text.str)) =>
                 v = xml_to_dict([e EXCEPT !.text = PyNone])

\* C9 witness: the root is <a>  </a>, decoded.
C9_Witness ==
    /\ Normalized
    /\ IsEmptyElement(xml_content.root)
    /\ xml_content.root.text # PyNone

IsXmlContentType(ct) ==
    /\ ct.present
    /\ Len(ct.value) >= 3
    /\ ct.value[1] = "application" /\ ct.value[2] = "/" /\ ct.value[3] = "xml"

\* C10: a successful response always decodes to a dictionary: for a content
\* type that begins with application/xml, the value of the root (a string
\* under "text_content", None as {"empty": True}, a dictionary as it is) or,
\* for a malformed body, {"raw_xml": body}; for any other or no content
\* type, {"raw_content": body}.
C10_DecodingByContentType ==
    decoded # NotDecoded =>
        /\ IsDict(decoded)
        /\ IF IsXmlContentType(content_type)
           THEN IF xml_content.wf
                THEN /\ Normalized
                     /\ IsStr(xml_value.value) =>
                           decoded = PyDict(DictSet(EmptyDict, "text_content", xml_value.value))
                     /\ xml_value.value = PyNone => decoded = EmptyResult
                     /\ IsDict(xml_value.value) => decoded = xml_value.value
                ELSE decoded = PyDict(DictSet(EmptyDict, "raw_xml", PyStr(xml_content)))
           ELSE decoded = PyDict(DictSet(EmptyDict, "raw_content", PyStr(xml_content)))

\* C10 witness: application/xml; charset=UTF-8 with a document whose root is
\* text only, decoded.
C10_Witness ==
    /\ decoded # NotDecoded
    /\ IsXmlContentType(content_type)
    /\ Len(content_type.value) > 3
    /\ xml_content.wf
    /\ IsStr(xml_value.value)

(***************************************************************************)
(* C11: stale client references.                                           *)
(***************************************************************************)
\* task p is suspended in a request sent on the client self[p]
RequestInFlight(p) == pc[p] \in {"get_auth_token", "make_request"}

\* the client task p is suspended on has been released (its connection
\* context closed) or is no longer the process-wide client
StaleReference(p) ==
    /\ RequestInFlight(p)
    /\ clients[self[p]].closed \/ ops_client # self[p]

\* room for the two clients an authentication call constructs
RoomForAuthentication ==
    Len(clients) + Cardinality(AuthInFlight) + 2 <= MaxClients

\* C11: nothing synchronises the replacement of the process-wide client with
\* the operations that use it.  Whenever a task p has a request in flight, an
\* authentication call of another task q can start at once, and it replaces
\* the process-wide client, leaving p on a stale reference; and whenever an
\* authentication call of q has its token exchange in flight while p has a
\* request in flight on the process-wide client, q's exchange can return at
\* once, and q then releases the connection context p's request is in flight
\* on.  Hence the interleavings in which an operation is left on a released
\* or replaced client are reachable (C11_Witness).
C11_StaleReferenceReachable ==
    \A p \in Tasks : \A q \in Tasks \ {p} :
        /\ (/\ returned = NoReturn
            /\ RequestInFlight(p)
            /\ pc[q] = "idle"
            /\ RoomForAuthentication)
           => ENABLED (/\ authenticate(q, "authenticate_ops")
                       /\ pc'[p] = pc[p]
                       /\ self'[p] = self[p]
                       /\ ops_client' # self'[p])
        /\ (/\ returned = NoReturn
            /\ RequestInFlight(p)
            /\ ~StaleReference(p)
            /\ pc[q] = "get_auth_token")
           => ENABLED (/\ get_auth_token_returns(q, <<"tokA">>)
                       /\ pc'[p] = pc[p]
                       /\ self'[p] = self[p]
                       /\ clients'[self'[p]].closed)

\* C11 witness: two authentication calls race; the one that started first
\* got its token and released the process-wide client, which by then is the
\* client the other call's token exchange is still in flight on.
C11_Witness ==
    \E p \in Tasks : \E q \in Tasks \ {p} :
        /\ pc[p] = "get_auth_token"
        /\ clients[self[p]].closed
        /\ pc[q] = "aexit"
        /\ ops_client = self[p]

\* an authentication call racing a fetch: the fetch has its request in flight
\* on a client that an authentication call started later has replaced
C11_FetchOnReplacedClient ==
    \E p \in Tasks : \E q \in Tasks \ {p} :
        /\ pc[p] = "make_request"
        /\ ops_client # self[p]
        /\ pc[q] = "get_auth_token"

=============================================================================
